---- MODULE Spec2Model ----
(***************************************************************************)
(* State-machine model of the video-utils-hw encode layer:                 *)
(*   src/predict.py   - Predictor (setup, predict, preview, boomerang,     *)
(*                      web re-encode, probes, plan builders)              *)
(*   src/reencoder.py - the standalone reencoder function                  *)
(* One step of the machine is one blocking subprocess call (nvidia-smi,    *)
(* ffprobe, ffmpeg) together with the Python code around it, up to the     *)
(* next subprocess call, return or raise.                                  *)
(***************************************************************************)
EXTENDS Integers, Sequences, FiniteSets, TLC

(* ---------------------------------------------------------------------- *)
(* Bounds and the input domains                                           *)
(* ---------------------------------------------------------------------- *)

\* Number of calls (predict / reencoder) one worker process serves.
MaxCalls == 2

\* Worker processes.  Each has its own Predictor; the disk is shared.
Reqs == {"w1", "w2"}

\* The optional values of Python: None is the empty tuple, x is <<x>>.
None == <<>>

Some(x) == <<x>>

\* Captured stderr byte strings of a failing ffmpeg run.
Diags == {"nvenc: no capable devices", "invalid data <ff>"}

\* bytes.decode('utf-8', errors='replace'): undecodable bytes become U+FFFD.
DecodeReplace(b) ==
    IF b = "invalid data <ff>" THEN "invalid data <U+FFFD>" ELSE b

\* What one subprocess.run of ffmpeg can do: exit 0, or exit non-zero
\* having written `stderr`.
EngineResults ==
    {[rc |-> 0, stderr |-> ""]} \cup {[rc |-> 1, stderr |-> d] : d \in Diags}

\* stdout of the codec_name probe (stripped).  The tool is external, so its
\* text is not constrained ("h264_cuvid" is the text reencoder tests for).
CodecOutputs == {"h264", "hevc", "h264_cuvid"}

\* stdout of the r_frame_rate probe: a rational "num/den", a decimal
\* (written here as the exact fraction it denotes) or text float() rejects.
FpsOutputs ==
    { [form |-> "rational", num |-> 24,    den |-> 1],
      [form |-> "rational", num |-> 30000, den |-> 1001],
      [form |-> "rational", num |-> 30,    den |-> 0],
      [form |-> "decimal",  num |-> 2997,  den |-> 100],
      [form |-> "other",    num |-> 0,     den |-> 1] }

\* The JSON document of the width,height probe: the first stream's fields
\* (None when the key is missing), or no streams at all.
ResolutionOutputs ==
    { [streams |-> 1, width |-> Some(3840), height |-> Some(2160)],
      [streams |-> 1, width |-> Some(1920), height |-> Some(1080)],
      [streams |-> 1, width |-> Some(1280), height |-> None],
      [streams |-> 0, width |-> None,       height |-> None] }

\* stdout of the bit_rate probe (stripped): digits or "N/A".
BitrateOutputs ==
    { [form |-> "digits", value |-> 12000000],
      [form |-> "digits", value |-> 4000000],
      [form |-> "N/A",    value |-> 0] }

\* Arguments a caller passes to the standalone reencoder.
StartTimes == {0, 1}

EndTimes == {-1, 3}

\* The helper methods of the Predictor, called with their arguments (the
\* task name stands for the method that serves it): the trim window is
\* drawn from StartTimes and EndTimes, and the probed properties of the
\* input from the sets below.
Methods == {"create_preview_video", "boomerang", "reencode_for_web", "reencoder"}

\* <<width, height>> of inputs: 16:9, DCI, ultrawide, portrait; above, at
\* and below the 1440 cap.
ResolutionInputs ==
    { <<3840, 2160>>, <<4096, 2160>>, <<5120, 2160>>, <<4096, 1716>>,
      <<7680, 4320>>, <<2560, 1600>>, <<2160, 3840>>, <<1080, 1920>>,
      <<2560, 1440>>, <<1920, 1080>>, <<1440, 1080>>, <<1280, 720>>,
      <<854, 480>> }

\* stdout of the bit_rate probe for those inputs, in bits per second.
BitrateInputs ==
    { [form |-> "digits", value |-> 0],
      [form |-> "digits", value |-> 1000000],
      [form |-> "digits", value |-> 2500000],
      [form |-> "digits", value |-> 3000000],
      [form |-> "digits", value |-> 4000000],
      [form |-> "digits", value |-> 4750000],
      [form |-> "digits", value |-> 6250000],
      [form |-> "digits", value |-> 9000000],
      [form |-> "digits", value |-> 10000000],
      [form |-> "digits", value |-> 12000000],
      [form |-> "N/A",    value |-> 0] }

\* What the probing tool may print when nothing in the file constrains it:
\* the texts above and, in addition, an empty codec line, a frame rate of
\* zero in both notations, a zero width, and a zero bit rate.
CodecInputs == CodecOutputs \cup {""}

FpsInputs ==
    FpsOutputs
    \cup { [form |-> "rational", num |-> 0, den |-> 1],
           [form |-> "decimal",  num |-> 0, den |-> 1] }

ResolutionDocuments ==
    ResolutionOutputs
    \cup { [streams |-> 1, width |-> Some(0), height |-> Some(1080)] }

\* Task names a caller may send to predict().
TaskNames == {"create_preview_video", "boomerang", "reencode_for_web", "unknown_task"}

Range(s) == {s[i] : i \in 1..Len(s)}

(* ---------------------------------------------------------------------- *)
(* Argument lists (the plans handed to the external engine)               *)
(* ---------------------------------------------------------------------- *)

\* Python's str() of an integer argument.
Str(n) == ToString(n)

\* Variant of TrimArgs that tests the end time against 0.
TrimArgsEndZero(start_time, end_time) ==
    (IF start_time # 0 THEN <<"-ss", Str(start_time)>> ELSE <<>>)
    \o (IF end_time # 0 THEN <<"-to", Str(end_time)>> ELSE <<>>)

\* The trim arguments every builder emits before "-i".
TrimArgs(start_time, end_time) ==
    (IF start_time # 0 THEN <<"-ss", Str(start_time)>> ELSE <<>>)
    \o (IF end_time # -1 THEN <<"-to", Str(end_time)>> ELSE <<>>)

\* A bitrate token such as "8M", and int(token.replace('M', '')).
FormatM(n) == ToString(n) \o "M"

MbpsOf(token) == CHOOSE n \in 0..99 : FormatM(n) = token

\* scale_filter is None or the pair <<new_width, new_height>>; the text is
\* f"scale={new_width}:{new_height}", and .replace("scale=", "scale_cuda=")
\* changes the filter name only.
ScaleText(filter, scale_filter) ==
    filter \o "=" \o Str(scale_filter[1]) \o ":" \o Str(scale_filter[2])

\* Predictor._encode_with_hardware: the generic hardware plan.
HardwareCmd(input_path, output_path, start_time, end_time, preset, bitrate, input_codec) ==
    <<"ffmpeg", "-y">>
    \o (IF input_codec = "h264" THEN <<"-c:v", "h264_cuvid">> ELSE <<>>)
    \o TrimArgs(start_time, end_time)
    \o <<"-i", input_path, "-c:v", "h264_nvenc", "-preset", preset,
         "-b:v", bitrate, "-c:a", "aac", "-b:a", "128k", output_path>>

\* Predictor._encode_with_software: the generic software plan.
SoftwareCmd(input_path, output_path, start_time, end_time, preset, bitrate) ==
    <<"ffmpeg", "-y">>
    \o TrimArgs(start_time, end_time)
    \o <<"-i", input_path, "-c:v", "libx264", "-preset", preset,
         "-b:v", bitrate, "-c:a", "aac", "-b:a", "128k", output_path>>

\* Predictor._create_boomerang: the reverse plan.
ReverseCmd(gpu_available, trimmed_path, reversed_path, preset, bitrate) ==
    <<"ffmpeg", "-y", "-i", trimmed_path, "-vf", "reverse", "-af", "areverse">>
    \o (IF gpu_available
        THEN <<"-c:v", "h264_nvenc", "-preset", preset, "-b:v", bitrate>>
        ELSE <<"-c:v", "libx264", "-preset", preset, "-b:v", bitrate>>)
    \o <<"-c:a", "aac", "-b:a", "128k", reversed_path>>

\* Variant of ConcatDescriptor that lists the reversed file first.
ConcatDescriptorReversedFirst(trimmed_path, reversed_path) ==
    <<"file '" \o reversed_path \o "'", "file '" \o trimmed_path \o "'">>

\* Predictor._create_boomerang: the two lines of the concat descriptor.
ConcatDescriptor(trimmed_path, reversed_path) ==
    <<"file '" \o trimmed_path \o "'", "file '" \o reversed_path \o "'">>

\* Predictor._create_boomerang: the stream-copy concat plan.
ConcatCmd(concat_name, output_path) ==
    <<"ffmpeg", "-y", "-f", "concat", "-safe", "0", "-i", concat_name,
      "-c", "copy", output_path>>

\* Predictor._encode_preview_with_hardware.
PreviewHardwareCmd(input_path, output_path, start_time, end_time, input_codec) ==
    <<"ffmpeg", "-y">>
    \o (IF input_codec = "h264"
        THEN <<"-hwaccel", "cuda", "-hwaccel_output_format", "cuda",
               "-c:v", "h264_cuvid">>
        ELSE <<>>)
    \o TrimArgs(start_time, end_time)
    \o <<"-i", input_path>>
    \o (IF input_codec = "h264"
        THEN <<"-vf", "scale_cuda=-2:480">>
        ELSE <<"-vf", "scale=-2:480">>)
    \o <<"-c:v", "h264_nvenc", "-preset", "p4", "-tune", "hq", "-rc", "vbr",
         "-rc-lookahead", "20", "-spatial_aq", "1", "-temporal_aq", "1",
         "-b:v", "700k", "-maxrate", "1000k", "-bufsize", "2000k",
         "-g", "30", "-bf", "0", "-movflags", "+faststart",
         "-c:a", "aac", "-b:a", "128k", "-ac", "2", "-ar", "44100",
         output_path>>

\* Predictor._encode_preview_with_software.
PreviewSoftwareCmd(input_path, output_path, start_time, end_time) ==
    <<"ffmpeg", "-y">>
    \o TrimArgs(start_time, end_time)
    \o <<"-i", input_path, "-vf", "scale=-2:480", "-c:v", "libx264",
         "-preset", "medium", "-crf", "26", "-profile:v", "baseline",
         "-movflags", "+faststart", "-g", "30", "-sc_threshold", "0",
         "-keyint_min", "30", "-b:v", "700k", "-maxrate", "1000k",
         "-bufsize", "2000k", "-c:a", "aac", "-b:a", "128k", "-ac", "2",
         "-ar", "44100", output_path>>

\* Predictor._encode_web_with_hardware.
WebHardwareCmd(input_path, output_path, start_time, end_time, input_codec, keyframe_interval, scale_filter, target_bitrate, max_bitrate) ==
    LET maxrate_value == MbpsOf(max_bitrate)
        bufsize == FormatM(maxrate_value * 2)
    IN  <<"ffmpeg", "-y">>
        \o (IF input_codec = "h264"
            THEN <<"-hwaccel", "cuda", "-hwaccel_output_format", "cuda",
                   "-c:v", "h264_cuvid">>
            ELSE <<>>)
        \o TrimArgs(start_time, end_time)
        \o <<"-i", input_path>>
        \o (IF scale_filter # None /\ input_codec = "h264"
            THEN <<"-vf", ScaleText("scale_cuda", scale_filter)>>
            ELSE IF scale_filter # None
                 THEN <<"-vf", ScaleText("scale", scale_filter)>>
                 ELSE <<>>)
        \o <<"-c:v", "h264_nvenc", "-preset", "p4", "-profile:v", "high",
             "-rc", "vbr", "-cq", "23", "-rc-lookahead", "32",
             "-spatial_aq", "1", "-temporal_aq", "1",
             "-b:v", target_bitrate, "-maxrate", max_bitrate,
             "-bufsize", bufsize, "-g", Str(keyframe_interval),
             "-force_key_frames", "expr:gte(t,n_forced*2)", "-bf", "3",
             "-movflags", "+faststart", "-c:a", "aac", "-b:a", "128k",
             "-ac", "2", "-ar", "48000", output_path>>

\* Predictor._encode_web_with_software.
WebSoftwareCmd(input_path, output_path, start_time, end_time, keyframe_interval, scale_filter, target_bitrate, max_bitrate) ==
    LET maxrate_value == MbpsOf(max_bitrate)
        bufsize == FormatM(maxrate_value * 2)
        maxrate_bps == MbpsOf(max_bitrate) * 1000000
        bufsize_bps == MbpsOf(bufsize) * 1000000
    IN  <<"ffmpeg", "-y">>
        \o TrimArgs(start_time, end_time)
        \o <<"-i", input_path>>
        \o (IF scale_filter # None
            THEN <<"-vf", ScaleText("scale", scale_filter)>>
            ELSE <<>>)
        \o <<"-c:v", "libx264", "-preset", "medium", "-crf", "23",
             "-profile:v", "high", "-level", "4.0", "-x264-params",
             "vbv-maxrate=" \o Str(maxrate_bps) \o ":vbv-bufsize=" \o Str(bufsize_bps),
             "-movflags", "+faststart", "-g", Str(keyframe_interval),
             "-force_key_frames", "expr:gte(t,n_forced*2)",
             "-keyint_min", Str(keyframe_interval), "-sc_threshold", "0",
             "-maxrate", max_bitrate, "-bufsize", bufsize,
             "-c:a", "aac", "-b:a", "128k", "-ac", "2", "-ar", "48000",
             output_path>>

\* reencoder: the first plan (hardware decode and encode).
ReencoderCmd(input_path, output_path, start_time, end_time, preset) ==
    <<"ffmpeg", "-y", "-c:v", "h264_cuvid">>
    \o TrimArgs(start_time, end_time)
    \o <<"-i", input_path, "-c:v", "h264_nvenc", "-preset", preset,
         "-b:v", "20M", "-c:a", "aac", output_path>>

\* reencoder: the first fallback plan.
ReencoderFallbackCmd(input_path, output_path, start_time, end_time, preset) ==
    <<"ffmpeg", "-y", "-loglevel", "error">>
    \o TrimArgs(start_time, end_time)
    \o <<"-i", input_path, "-c:v", "h264_nvenc", "-preset", preset,
         "-b:v", "20M", "-c:a", "aac", output_path>>

\* reencoder: the second fallback plan (no encoder named).
ReencoderLastCmd(input_path, output_path, start_time, end_time, preset) ==
    <<"ffmpeg", "-y", "-loglevel", "error">>
    \o TrimArgs(start_time, end_time)
    \o <<"-i", input_path, "-preset", preset, "-b:v", "20M",
         "-c:a", "aac", output_path>>

(* ---------------------------------------------------------------------- *)
(* Probes: what each query returns for one run of the probing tool        *)
(* ---------------------------------------------------------------------- *)

\* One run of ffprobe: exit status and, on exit 0, its stdout.
ProbeRuns(outputs) ==
    {[rc |-> 0, stdout |-> o] : o \in outputs}
    \cup {[rc |-> 1, stdout |-> CHOOSE o \in outputs : TRUE]}

\* Predictor._get_video_codec.
GetVideoCodec(run) == IF run.rc = 0 THEN run.stdout ELSE "unknown"

\* Predictor._get_video_fps.  A float is kept as the fraction <<num, den>>.
GetVideoFps(run) ==
    IF run.rc # 0 THEN <<30, 1>>
    ELSE IF run.stdout.form = "rational"
         THEN IF run.stdout.den = 0 THEN <<30, 1>>
              ELSE <<run.stdout.num, run.stdout.den>>
         ELSE IF run.stdout.form = "decimal"
              THEN <<run.stdout.num, run.stdout.den>>
              ELSE <<30, 1>>

\* Python truthiness of stream.get(key): None and 0 are false.
Truthy(opt) == opt # None /\ opt[1] # 0

\* Predictor._get_video_resolution.
GetVideoResolution(run) ==
    IF run.rc = 0 /\ run.stdout.streams > 0
       /\ Truthy(run.stdout.width) /\ Truthy(run.stdout.height)
    THEN <<run.stdout.width[1], run.stdout.height[1]>>
    ELSE <<1920, 1080>>

\* Predictor._get_video_bitrate: None or the integer bits per second.
GetVideoBitrate(run) ==
    IF run.rc = 0 /\ run.stdout.form = "digits"
    THEN Some(run.stdout.value)
    ELSE None

(* ---------------------------------------------------------------------- *)
(* Parameter derivation of the web re-encode                              *)
(* ---------------------------------------------------------------------- *)

\* int(x) of a non-negative fraction num/den: truncation.
IntOf(num, den) == num \div den

\* keyframe_interval = int(fps * 2)
KeyframeInterval(fps) == IntOf(fps[1] * 2, fps[2])

max_height == 1440

\* scale_filter and (new_width, new_height).  The float product
\* width * (max_height / height) truncates like the exact quotient for the
\* resolutions used here.
NewWidth(width, height) ==
    LET w == IntOf(width * max_height, height)
    IN  IF w % 2 = 0 THEN w ELSE w - 1

\* Variant of ScaleFilter that also scales an input exactly at the cap.
ScaleFilterAtCap(width, height) ==
    IF height >= max_height THEN <<NewWidth(width, height), max_height>> ELSE None

ScaleFilter(width, height) ==
    IF height > max_height THEN <<NewWidth(width, height), max_height>> ELSE None

NewResolution(width, height) ==
    IF height > max_height THEN <<NewWidth(width, height), max_height>>
    ELSE <<width, height>>

\* Variant of LadderBitrate with strict comparisons.
LadderBitrateStrict(new_height) ==
    IF new_height > 1440 THEN <<"8M", "12M">>
    ELSE IF new_height > 1080 THEN <<"5M", "8M">>
    ELSE IF new_height > 720 THEN <<"3M", "5M">>
    ELSE <<"2M", "3M">>

\* The bitrate ladder: <<target_bitrate, max_bitrate>> by new_height.
LadderBitrate(new_height) ==
    IF new_height >= 1440 THEN <<"8M", "12M">>
    ELSE IF new_height >= 1080 THEN <<"5M", "8M">>
    ELSE IF new_height >= 720 THEN <<"3M", "5M">>
    ELSE <<"2M", "3M">>

\* Variant of AdjustBitrate without the 2.0 minimum.
AdjustBitrateNoMinimum(ladder, input_bitrate) ==
    IF Truthy(input_bitrate)
    THEN LET calculated == 8 * input_bitrate[1]
         IN  IF calculated < MbpsOf(ladder[1]) * 10000000
             THEN <<FormatM(IntOf(calculated, 10000000)),
                    FormatM(IntOf(calculated * 3, 20000000))>>
             ELSE ladder
    ELSE ladder

\* Variant of AdjustBitrate that adopts the calculated target without
\* comparing it with the ladder's.
AdjustBitrateAlways(ladder, input_bitrate) ==
    IF Truthy(input_bitrate)
    THEN LET calculated == IF 8 * input_bitrate[1] > 20000000
                           THEN 8 * input_bitrate[1] ELSE 20000000
         IN  <<FormatM(IntOf(calculated, 10000000)),
               FormatM(IntOf(calculated * 3, 20000000))>>
    ELSE ladder

\* The input-bitrate adjustment.  calculated_target = max(2.0, mbps * 0.8)
\* is kept in units of 1e-7 Mbps: max(2e7, 8 * input_bitrate).
AdjustBitrate(ladder, input_bitrate) ==
    IF Truthy(input_bitrate)
    THEN LET calculated == IF 8 * input_bitrate[1] > 20000000
                           THEN 8 * input_bitrate[1] ELSE 20000000
         IN  IF calculated < MbpsOf(ladder[1]) * 10000000
             THEN <<FormatM(IntOf(calculated, 10000000)),
                    FormatM(IntOf(calculated * 3, 20000000))>>
             ELSE ladder
    ELSE ladder

\* Any hardware decoder, encoder or filter argument of a plan.
ScaleCudaTexts ==
    {"scale_cuda=-2:480"}
    \cup {ScaleText("scale_cuda", ScaleFilter(o.width[1], o.height[1])) :
            o \in {x \in ResolutionOutputs :
                     /\ Truthy(x.width) /\ Truthy(x.height)
                     /\ x.height[1] > max_height}}
    \cup {ScaleText("scale_cuda", <<NewWidth(o[1], o[2]), max_height>>) :
            o \in ResolutionInputs}

HardwareTokens == {"h264_nvenc", "h264_cuvid", "-hwaccel"} \cup ScaleCudaTexts

UsesHardware(cmd) == Range(cmd) \cap HardwareTokens # {}


(* ---------------------------------------------------------------------- *)
(* State                                                                  *)
(* ---------------------------------------------------------------------- *)

\* rq[r]    - worker r: its Predictor (gpu_available) and the locals of the
\*            call it is serving, with pc the next blocking step; `created`
\*            (the paths the call obtained from the temporary-file
\*            provider), `unlinked` (the paths the call has passed to
\*            os.unlink and removed, in order), `probes` and `engine` (the
\*            probe and engine runs of the call, in order) record the
\*            call's history
\* disk     - the temporary directory: path -> content (a tuple of lines;
\*            an encoded file holds the name of the step that wrote it)
\* nextTmp  - the temporary-file provider's counter of names handed out
VARIABLES rq, disk, nextTmp

vars == <<rq, disk, nextTmp>>

\* The result a caller sees: a returned path or a raised exception, whose
\* message is `prefix` followed by `text` (None when there is no text).
NoOutcome ==
    [kind |-> "none", path |-> "", etype |-> "", prefix |-> "", text |-> None]

Returned(path) ==
    [kind |-> "returned", path |-> path, etype |-> "", prefix |-> "", text |-> None]

Raised(etype, prefix, text) ==
    [kind |-> "raised", path |-> "", etype |-> etype, prefix |-> prefix, text |-> text]

\* A worker between calls: no locals are bound.
Worker(pc, gpu_available, calls) ==
    [pc |-> pc, gpu_available |-> gpu_available, calls |-> calls,
     entry |-> "", task |-> "", video |-> "",
     start_time |-> 0, end_time |-> -1, preset |-> "", bitrate |-> "",
     trimmed_path |-> "", reversed_path |-> "", output_path |-> "",
     concat_name |-> "", created |-> {}, unlinked |-> <<>>,
     input_codec |-> "", ffprobe_output |-> "", fps |-> None,
     resolution |-> None, input_bitrate |-> None,
     keyframe_interval |-> 0, scale_filter |-> None,
     new_resolution |-> None, target_bitrate |-> "", max_bitrate |-> "",
     probes |-> <<>>, engine |-> <<>>, outcome |-> NoOutcome]

\* Variant of TmpName: one fixed name per suffix.
TmpNameFixed(n, suffix) == "/tmp/tmp" \o suffix

\* tempfile.NamedTemporaryFile(suffix=..., delete=False): the n-th name.
TmpName(n, suffix) == "/tmp/tmp" \o ToString(n) \o suffix

\* The disk after `path` is created or overwritten with `content`.
WriteFile(d, path, content) ==
    [p \in DOMAIN d \cup {path} |-> IF p = path THEN content ELSE d[p]]

\* os.path.exists and os.unlink.
Exists(d, path) == path \in DOMAIN d

Unlink(d, path) == [p \in DOMAIN d \ {path} |-> d[p]]

\* e.stderr of the CalledProcessError of a failed run: the bytes when the
\* run captured its output, None otherwise.
Stderr(capture_output, res) ==
    IF capture_output /\ res.rc # 0 THEN Some(res.stderr) ELSE None

\* One engine invocation as the call records it.
Invocation(site, cmd, res, capture_output) ==
    [site |-> site, cmd |-> cmd, rc |-> res.rc,
     stderr |-> Stderr(capture_output, res)]

\* The file an engine run leaves at its output path.
EngineOutput(site, res) == IF res.rc = 0 THEN <<site>> ELSE <<"partial">>

Init ==
    /\ rq = [r \in Reqs |->
               IF r = "w1" THEN Worker("boot", FALSE, 0)
               ELSE Worker("off", FALSE, 0)]
    /\ disk = [p \in {} |-> <<>>]
    /\ nextTmp = 1

(* ---------------------------------------------------------------------- *)
(* Predictor.setup and Predictor.predict                                  *)
(* ---------------------------------------------------------------------- *)

\* setup: nvidia-smi exits 0, or fails (CalledProcessError, FileNotFoundError).
Setup(r) ==
    /\ rq[r].pc = "boot"
    /\ \E smi \in BOOLEAN :
         rq' = [rq EXCEPT ![r].pc = "idle", ![r].gpu_available = smi]
    /\ UNCHANGED <<disk, nextTmp>>

\* Variant of Handler whose final else falls through to the preview.
HandlerDefault(task) ==
    IF task = "boomerang" THEN "_create_boomerang"
    ELSE IF task = "reencode_for_web" THEN "_reencode_for_web"
    ELSE "_create_preview_video"

\* The if/elif chain of predict: the handler of a task name.
Handler(task) ==
    IF task = "create_preview_video" THEN "_create_preview_video"
    ELSE IF task = "boomerang" THEN "_create_boomerang"
    ELSE IF task = "reencode_for_web" THEN "_reencode_for_web"
    ELSE "raise"

\* Variant of TryHardware that ignores the flag.
TryHardwareAlways(gpu_available) == TRUE

\* `if self.gpu_available:` - whether the hardware plan is tried first.
TryHardware(gpu_available) == gpu_available

\* predict(video, task), up to the first probe of the chosen handler (or
\* the raise).
PredictTask(r, task) ==
    /\ rq[r].pc = "idle"
    /\ rq[r].calls < MaxCalls
    /\   LET call == [Worker("idle", rq[r].gpu_available, rq[r].calls + 1)
                        EXCEPT !.entry = "predict", !.task = task,
                               !.video = "/input/video.mp4",
                               !.start_time = 0, !.end_time = -1,
                               !.preset = "medium", !.bitrate = "20M"]
             h == Handler(task)
         IN  IF h = "_create_preview_video" \/ h = "_reencode_for_web"
             THEN /\ rq' = [rq EXCEPT ![r] =
                       [call EXCEPT
                          !.pc = IF h = "_create_preview_video"
                                 THEN "preview_codec" ELSE "web_codec",
                          !.output_path = TmpName(nextTmp, ".mp4"),
                          !.created = {TmpName(nextTmp, ".mp4")}]]
                  /\ disk' = WriteFile(disk, TmpName(nextTmp, ".mp4"), <<>>)
                  /\ nextTmp' = nextTmp + 1
             ELSE IF h = "_create_boomerang"
             THEN /\ rq' = [rq EXCEPT ![r] =
                       [call EXCEPT
                          !.pc = "boom_codec",
                          !.trimmed_path = TmpName(nextTmp, ".mp4"),
                          !.reversed_path = TmpName(nextTmp + 1, ".mp4"),
                          !.output_path = TmpName(nextTmp + 2, ".mp4"),
                          !.created = {TmpName(nextTmp, ".mp4"),
                                       TmpName(nextTmp + 1, ".mp4"),
                                       TmpName(nextTmp + 2, ".mp4")}]]
                  /\ disk' = WriteFile(WriteFile(WriteFile(disk,
                                 TmpName(nextTmp, ".mp4"), <<>>),
                                 TmpName(nextTmp + 1, ".mp4"), <<>>),
                                 TmpName(nextTmp + 2, ".mp4"), <<>>)
                  /\ nextTmp' = nextTmp + 3
             ELSE /\ rq' = [rq EXCEPT ![r] =
                       [call EXCEPT
                          !.pc = "done",
                          !.outcome = Raised("ValueError", "Unknown task: ",
                                             Some(task))]]
                  /\ UNCHANGED <<disk, nextTmp>>

Predict(r) == \E task \in TaskNames : PredictTask(r, task)

(* ---------------------------------------------------------------------- *)
(* Probe steps of the Predictor                                           *)
(* ---------------------------------------------------------------------- *)

ProbeEntry(query, run) == [query |-> query, rc |-> run.rc]

\* _get_video_codec, and the branch on gpu_available that follows it in
\* _create_preview_video and _create_boomerang; `outputs` is what the
\* probe may print.
ProbeCodecFrom(r, outputs) ==
    /\ rq[r].pc \in {"preview_codec", "boom_codec", "web_codec"}
    /\ \E run \in ProbeRuns(outputs) :
         rq' = [rq EXCEPT
                  ![r].input_codec = GetVideoCodec(run),
                  ![r].probes = Append(@, ProbeEntry("codec_name", run)),
                  ![r].pc =
                     IF rq[r].pc = "web_codec" THEN "web_fps"
                     ELSE IF rq[r].pc = "preview_codec"
                          THEN IF TryHardware(rq[r].gpu_available)
                               THEN "preview_hw" ELSE "preview_sw"
                          ELSE IF TryHardware(rq[r].gpu_available)
                               THEN "boom_trim_hw" ELSE "boom_trim_sw"]
    /\ UNCHANGED <<disk, nextTmp>>

ProbeCodec(r) == ProbeCodecFrom(r, CodecOutputs)

\* _get_video_fps (web re-encode).
ProbeFpsFrom(r, outputs) ==
    /\ rq[r].pc = "web_fps"
    /\ \E run \in ProbeRuns(outputs) :
         rq' = [rq EXCEPT
                  ![r].fps = GetVideoFps(run),
                  ![r].probes = Append(@, ProbeEntry("r_frame_rate", run)),
                  ![r].pc = "web_resolution"]
    /\ UNCHANGED <<disk, nextTmp>>

ProbeFps(r) == ProbeFpsFrom(r, FpsOutputs)

\* _get_video_resolution (web re-encode).
ProbeResolutionFrom(r, outputs) ==
    /\ rq[r].pc = "web_resolution"
    /\ \E run \in ProbeRuns(outputs) :
         rq' = [rq EXCEPT
                  ![r].resolution = GetVideoResolution(run),
                  ![r].probes = Append(@, ProbeEntry("width,height", run)),
                  ![r].pc = "web_bitrate"]
    /\ UNCHANGED <<disk, nextTmp>>

ProbeResolution(r) == ProbeResolutionFrom(r, ResolutionOutputs)

\* _get_video_bitrate, then the parameter derivation of _reencode_for_web
\* up to the branch on gpu_available; `outputs` is what the probe may print.
ProbeBitrateFrom(r, outputs) ==
    /\ rq[r].pc = "web_bitrate"
    /\ \E run \in ProbeRuns(outputs) :
         LET input_bitrate == GetVideoBitrate(run)
             width == rq[r].resolution[1]
             height == rq[r].resolution[2]
             new_height == NewResolution(width, height)[2]
             rates == AdjustBitrate(LadderBitrate(new_height), input_bitrate)
         IN  rq' = [rq EXCEPT
                      ![r].input_bitrate = input_bitrate,
                      ![r].probes = Append(@, ProbeEntry("bit_rate", run)),
                      ![r].keyframe_interval = KeyframeInterval(rq[r].fps),
                      ![r].scale_filter = ScaleFilter(width, height),
                      ![r].new_resolution = NewResolution(width, height),
                      ![r].target_bitrate = rates[1],
                      ![r].max_bitrate = rates[2],
                      ![r].pc = IF TryHardware(rq[r].gpu_available)
                                THEN "web_hw" ELSE "web_sw"]
    /\ UNCHANGED <<disk, nextTmp>>

ProbeBitrate(r) == ProbeBitrateFrom(r, BitrateOutputs)

(* ---------------------------------------------------------------------- *)
(* Single-stage encodes of the Predictor: preview and web                 *)
(* ---------------------------------------------------------------------- *)

\* A step that runs `cmd` with capture_output=True at call site `site`:
\* the call's record and the disk after the run.
Ran(r, site, cmd, res) ==
    [rq[r] EXCEPT !.engine = Append(@, Invocation(site, cmd, res, TRUE))]

Wrote(site, cmd, res) ==
    WriteFile(disk, cmd[Len(cmd)], EngineOutput(site, res))

\* The RuntimeError a software encode raises from the captured stderr.
EncodeError(prefix, res) ==
    Raised("RuntimeError", prefix, Some(DecodeReplace(res.stderr)))

\* Variants of AfterHardware: one that never returns after the hardware
\* encode, one that returns whatever the hardware encode did.
AfterHardwareNoReturn(ran, success, fallback_pc) ==
    [ran EXCEPT !.pc = fallback_pc]

AfterHardwareNoFallback(ran, success, fallback_pc) ==
    [ran EXCEPT !.pc = "done", !.outcome = Returned(ran.output_path)]

\* `if success: return Path(output_path)` after a hardware encode;
\* otherwise the call goes on to the software encode at `fallback_pc`.
AfterHardware(ran, success, fallback_pc) ==
    IF success
    THEN [ran EXCEPT !.pc = "done", !.outcome = Returned(ran.output_path)]
    ELSE [ran EXCEPT !.pc = fallback_pc]

\* The software encode raises on failure; otherwise its caller returns
\* Path(output_path).
AfterSoftware(ran, res, prefix) ==
    IF res.rc = 0
    THEN [ran EXCEPT !.pc = "done", !.outcome = Returned(ran.output_path)]
    ELSE [ran EXCEPT !.pc = "done", !.outcome = EncodeError(prefix, res)]

\* _encode_preview_with_hardware and the `if success` of its caller.
PreviewHardware(r) ==
    /\ rq[r].pc = "preview_hw"
    /\ \E res \in EngineResults :
         LET cmd == PreviewHardwareCmd(rq[r].video, rq[r].output_path,
                        rq[r].start_time, rq[r].end_time, rq[r].input_codec)
             ran == Ran(r, "_encode_preview_with_hardware", cmd, res)
         IN  /\ rq' = [rq EXCEPT ![r] = AfterHardware(ran, res.rc = 0, "preview_sw")]
             /\ disk' = Wrote("_encode_preview_with_hardware", cmd, res)
    /\ UNCHANGED nextTmp

\* _encode_preview_with_software and the return of its caller.
PreviewSoftware(r) ==
    /\ rq[r].pc = "preview_sw"
    /\ \E res \in EngineResults :
         LET cmd == PreviewSoftwareCmd(rq[r].video, rq[r].output_path,
                        rq[r].start_time, rq[r].end_time)
             ran == Ran(r, "_encode_preview_with_software", cmd, res)
         IN  /\ rq' = [rq EXCEPT ![r] =
                  AfterSoftware(ran, res, "Software preview encoding failed: ")]
             /\ disk' = Wrote("_encode_preview_with_software", cmd, res)
    /\ UNCHANGED nextTmp

\* _encode_web_with_hardware and the `if success` of its caller.
WebHardware(r) ==
    /\ rq[r].pc = "web_hw"
    /\ \E res \in EngineResults :
         LET cmd == WebHardwareCmd(rq[r].video, rq[r].output_path,
                        rq[r].start_time, rq[r].end_time, rq[r].input_codec,
                        rq[r].keyframe_interval, rq[r].scale_filter,
                        rq[r].target_bitrate, rq[r].max_bitrate)
             ran == Ran(r, "_encode_web_with_hardware", cmd, res)
         IN  /\ rq' = [rq EXCEPT ![r] = AfterHardware(ran, res.rc = 0, "web_sw")]
             /\ disk' = Wrote("_encode_web_with_hardware", cmd, res)
    /\ UNCHANGED nextTmp

\* _encode_web_with_software and the return of its caller.
WebSoftware(r) ==
    /\ rq[r].pc = "web_sw"
    /\ \E res \in EngineResults :
         LET cmd == WebSoftwareCmd(rq[r].video, rq[r].output_path,
                        rq[r].start_time, rq[r].end_time,
                        rq[r].keyframe_interval, rq[r].scale_filter,
                        rq[r].target_bitrate, rq[r].max_bitrate)
             ran == Ran(r, "_encode_web_with_software", cmd, res)
         IN  /\ rq' = [rq EXCEPT ![r] =
                  AfterSoftware(ran, res, "Software web encoding failed: ")]
             /\ disk' = Wrote("_encode_web_with_software", cmd, res)
    /\ UNCHANGED nextTmp


(* ---------------------------------------------------------------------- *)
(* Predictor._create_boomerang: trim, reverse, concat                     *)
(* ---------------------------------------------------------------------- *)

\* `except subprocess.CalledProcessError as e`: the exceptions the
\* boomerang's handler catches.
BoomerangCatches(etype) == etype = "CalledProcessError"

\* Variant of CleanupPaths that leaves out the trimmed file.
CleanupPathsWithoutTrimmed(call) == <<call.reversed_path, call.output_path>>

\* `for path in [trimmed_path, reversed_path, output_path]` of the handler.
CleanupPaths(call) == <<call.trimmed_path, call.reversed_path, call.output_path>>

\* `if os.path.exists(path): os.unlink(path)` over the paths, in order.
RECURSIVE RemoveExisting(_, _)
RemoveExisting(d, paths) ==
    IF paths = <<>> THEN d
    ELSE RemoveExisting(IF Exists(d, Head(paths)) THEN Unlink(d, Head(paths)) ELSE d,
                        Tail(paths))

\* The paths that loop unlinks, in order.
RECURSIVE ExistingOf(_, _)
ExistingOf(d, paths) ==
    IF paths = <<>> THEN <<>>
    ELSE IF Exists(d, Head(paths))
         THEN <<Head(paths)>> \o ExistingOf(Unlink(d, Head(paths)), Tail(paths))
         ELSE ExistingOf(d, Tail(paths))

\* os.unlink over the paths, in order; a missing path raises
\* FileNotFoundError and ends the sequence.
RECURSIVE UnlinkEach(_, _)
UnlinkEach(d, paths) ==
    IF paths = <<>> THEN [disk |-> d, ok |-> TRUE]
    ELSE IF ~Exists(d, Head(paths)) THEN [disk |-> d, ok |-> FALSE]
    ELSE UnlinkEach(Unlink(d, Head(paths)), Tail(paths))

\* The paths those os.unlink calls remove before one raises.
RECURSIVE UnlinkedBy(_, _)
UnlinkedBy(d, paths) ==
    IF paths = <<>> \/ ~Exists(d, Head(paths)) THEN <<>>
    ELSE <<Head(paths)>> \o UnlinkedBy(Unlink(d, Head(paths)), Tail(paths))

\* The handler of _create_boomerang for a CalledProcessError with `res`:
\* `disk_then` is the disk when the handler starts.
BoomerangFailed(ran, res, disk_then) ==
    [ran EXCEPT !.pc = "done",
                !.unlinked = ExistingOf(disk_then, CleanupPaths(ran)),
                !.outcome = EncodeError("Boomerang creation failed: ", res)]

\* Variant of AfterTrimHardware that ignores the result of the hardware
\* trim.
AfterTrimHardwareIgnored(success) == "boom_reverse"

\* `if not success:` after the hardware trim: on to the reverse stage, or
\* to the software trim.
AfterTrimHardware(success) ==
    IF success THEN "boom_reverse" ELSE "boom_trim_sw"

\* _encode_with_hardware for the trimmed file and `if not success`.
TrimHardware(r) ==
    /\ rq[r].pc = "boom_trim_hw"
    /\ \E res \in EngineResults :
         LET cmd == HardwareCmd(rq[r].video, rq[r].trimmed_path,
                        rq[r].start_time, rq[r].end_time, rq[r].preset,
                        rq[r].bitrate, rq[r].input_codec)
             ran == Ran(r, "_encode_with_hardware", cmd, res)
         IN  /\ rq' = [rq EXCEPT ![r] =
                  [ran EXCEPT !.pc = AfterTrimHardware(res.rc = 0)]]
             /\ disk' = Wrote("_encode_with_hardware", cmd, res)
    /\ UNCHANGED nextTmp

\* _encode_with_software for the trimmed file.  Its RuntimeError leaves
\* _create_boomerang through the try statement.
TrimSoftware(r) ==
    /\ rq[r].pc = "boom_trim_sw"
    /\ \E res \in EngineResults :
         LET cmd == SoftwareCmd(rq[r].video, rq[r].trimmed_path,
                        rq[r].start_time, rq[r].end_time, rq[r].preset,
                        rq[r].bitrate)
             ran == Ran(r, "_encode_with_software", cmd, res)
             wrote == Wrote("_encode_with_software", cmd, res)
         IN  IF res.rc = 0
             THEN /\ rq' = [rq EXCEPT ![r] = [ran EXCEPT !.pc = "boom_reverse"]]
                  /\ disk' = wrote
             ELSE IF BoomerangCatches("RuntimeError")
             THEN /\ rq' = [rq EXCEPT ![r] = BoomerangFailed(ran, res, wrote)]
                  /\ disk' = RemoveExisting(wrote, CleanupPaths(rq[r]))
             ELSE /\ rq' = [rq EXCEPT ![r] =
                       [ran EXCEPT !.pc = "done",
                                   !.outcome = EncodeError(
                                       "Software encoding failed: ", res)]]
                  /\ disk' = wrote
    /\ UNCHANGED nextTmp

\* The reverse run; on success the concat descriptor is written, on
\* failure the handler cleans up and raises.
Reverse(r) ==
    /\ rq[r].pc = "boom_reverse"
    /\ \E res \in EngineResults :
         LET cmd == ReverseCmd(rq[r].gpu_available, rq[r].trimmed_path,
                        rq[r].reversed_path, rq[r].preset, rq[r].bitrate)
             ran == Ran(r, "reverse", cmd, res)
             wrote == Wrote("reverse", cmd, res)
             concat_name == TmpName(nextTmp, ".txt")
         IN  IF res.rc = 0
             THEN /\ rq' = [rq EXCEPT ![r] =
                       [ran EXCEPT !.pc = "boom_concat",
                                   !.concat_name = concat_name,
                                   !.created = @ \cup {concat_name}]]
                  /\ disk' = WriteFile(wrote, concat_name,
                                 ConcatDescriptor(rq[r].trimmed_path,
                                                  rq[r].reversed_path))
                  /\ nextTmp' = nextTmp + 1
             ELSE /\ rq' = [rq EXCEPT ![r] = BoomerangFailed(ran, res, wrote)]
                  /\ disk' = RemoveExisting(wrote, CleanupPaths(rq[r]))
                  /\ UNCHANGED nextTmp

\* The concat run; on success the three unlinks and the return, on
\* failure the handler.
Concat(r) ==
    /\ rq[r].pc = "boom_concat"
    /\ \E res \in EngineResults :
         LET cmd == ConcatCmd(rq[r].concat_name, rq[r].output_path)
             ran == Ran(r, "concat", cmd, res)
             wrote == Wrote("concat", cmd, res)
             unlinked == UnlinkEach(wrote, <<rq[r].trimmed_path,
                                            rq[r].reversed_path,
                                            rq[r].concat_name>>)
         IN  IF res.rc = 0
             THEN /\ rq' = [rq EXCEPT ![r] =
                       [ran EXCEPT !.pc = "done",
                                   !.unlinked = UnlinkedBy(wrote,
                                       <<rq[r].trimmed_path, rq[r].reversed_path,
                                         rq[r].concat_name>>),
                                   !.outcome =
                                      IF unlinked.ok
                                      THEN Returned(rq[r].output_path)
                                      ELSE Raised("FileNotFoundError", "", None)]]
                  /\ disk' = unlinked.disk
             ELSE /\ rq' = [rq EXCEPT ![r] = BoomerangFailed(ran, res, wrote)]
                  /\ disk' = RemoveExisting(wrote, CleanupPaths(rq[r]))
    /\ UNCHANGED nextTmp

(* ---------------------------------------------------------------------- *)
(* reencoder (src/reencoder.py)                                           *)
(* ---------------------------------------------------------------------- *)

\* Variant of ReencoderCaptures: the runs capture their output.
ReencoderCapturesOn == TRUE

\* subprocess.run(cmd, check=True): reencoder does not capture the output.
ReencoderCaptures == FALSE

\* reencoder up to its probe: the arguments, the output file, the plan.
Reencoder(r) ==
    /\ rq[r].pc = "idle"
    /\ rq[r].calls < MaxCalls
    /\ \E start_time \in StartTimes, end_time \in EndTimes :
         rq' = [rq EXCEPT ![r] =
                  [Worker("re_probe", rq[r].gpu_available, rq[r].calls + 1)
                     EXCEPT !.entry = "reencoder",
                            !.video = "/input/video.mp4",
                            !.start_time = start_time, !.end_time = end_time,
                            !.preset = "medium",
                            !.output_path = TmpName(nextTmp, ".mp4"),
                            !.created = {TmpName(nextTmp, ".mp4")}]]
    /\ disk' = WriteFile(disk, TmpName(nextTmp, ".mp4"), <<>>)
    /\ nextTmp' = nextTmp + 1

\* subprocess.check_output(ffprobe_cmd): a failing probe raises; otherwise
\* the test of the output chooses the first plan, or the ValueError that
\* `except Exception` turns into the fallback.
ReencoderProbe(r) ==
    /\ rq[r].pc = "re_probe"
    /\ \E run \in ProbeRuns(CodecOutputs) :
         rq' = [rq EXCEPT ![r] =
                  [rq[r] EXCEPT
                     !.probes = Append(@, ProbeEntry("codec_name", run)),
                     !.ffprobe_output = IF run.rc = 0 THEN run.stdout ELSE "",
                     !.pc = IF run.rc # 0 THEN "done"
                            ELSE IF run.stdout = "h264_cuvid" THEN "re_hw"
                            ELSE "re_fallback",
                     !.outcome = IF run.rc # 0
                                 THEN Raised("CalledProcessError", "", None)
                                 ELSE NoOutcome]]
    /\ UNCHANGED <<disk, nextTmp>>

\* The first plan; a failure is caught and leads to the fallback.
ReencoderHardware(r) ==
    /\ rq[r].pc = "re_hw"
    /\ \E res \in EngineResults :
         LET cmd == ReencoderCmd(rq[r].video, rq[r].output_path,
                        rq[r].start_time, rq[r].end_time, rq[r].preset)
             inv == Invocation("cmd", cmd, res, ReencoderCaptures)
         IN  /\ rq' = [rq EXCEPT ![r] =
                  [rq[r] EXCEPT
                     !.engine = Append(@, inv),
                     !.pc = IF res.rc = 0 THEN "done" ELSE "re_fallback",
                     !.outcome = IF res.rc = 0
                                 THEN Returned(rq[r].output_path)
                                 ELSE NoOutcome]]
             /\ disk' = Wrote("cmd", cmd, res)
    /\ UNCHANGED nextTmp

\* The fallback plan and its handler.  The handler formats
\* e.stderr.decode('utf-8'): with e.stderr None that raises AttributeError
\* and the handler ends there; otherwise it runs the last plan, whose
\* failure is re-raised.
ReencoderFallback(r) ==
    /\ rq[r].pc = "re_fallback"
    /\ \E res \in EngineResults, last \in EngineResults :
         LET cmd == ReencoderFallbackCmd(rq[r].video, rq[r].output_path,
                        rq[r].start_time, rq[r].end_time, rq[r].preset)
             inv == Invocation("fallback_cmd", cmd, res, ReencoderCaptures)
             cmd2 == ReencoderLastCmd(rq[r].video, rq[r].output_path,
                        rq[r].start_time, rq[r].end_time, rq[r].preset)
             inv2 == Invocation("fallback_cmd_2", cmd2, last, ReencoderCaptures)
         IN  IF res.rc = 0
             THEN /\ rq' = [rq EXCEPT ![r] =
                       [rq[r] EXCEPT !.engine = Append(@, inv),
                                     !.pc = "done",
                                     !.outcome = Returned(rq[r].output_path)]]
                  /\ disk' = Wrote("fallback_cmd", cmd, res)
             ELSE IF inv.stderr = None
             THEN /\ rq' = [rq EXCEPT ![r] =
                       [rq[r] EXCEPT
                          !.engine = Append(@, inv),
                          !.pc = "done",
                          !.outcome = Raised("AttributeError",
                              "'NoneType' object has no attribute 'decode'", None)]]
                  /\ disk' = Wrote("fallback_cmd", cmd, res)
             ELSE /\ rq' = [rq EXCEPT ![r] =
                       [rq[r] EXCEPT
                          !.engine = Append(Append(@, inv), inv2),
                          !.pc = "done",
                          !.outcome =
                             IF last.rc = 0 THEN Returned(rq[r].output_path)
                             ELSE Raised("CalledProcessError", "", inv2.stderr)]]
                  /\ disk' = Wrote("fallback_cmd_2", cmd2, last)
    /\ UNCHANGED nextTmp

(* ---------------------------------------------------------------------- *)
(* The next call, and the specification                                   *)
(* ---------------------------------------------------------------------- *)

\* The caller has the result; the worker takes its next call.
Finish(r) ==
    /\ rq[r].pc = "done"
    /\ rq[r].calls < MaxCalls
    /\ rq' = [rq EXCEPT ![r] = Worker("idle", rq[r].gpu_available, rq[r].calls)]
    /\ UNCHANGED <<disk, nextTmp>>

Next ==
    \E r \in Reqs :
        \/ Setup(r)
        \/ Predict(r)
        \/ ProbeCodec(r)
        \/ ProbeFps(r)
        \/ ProbeResolution(r)
        \/ ProbeBitrate(r)
        \/ PreviewHardware(r)
        \/ PreviewSoftware(r)
        \/ WebHardware(r)
        \/ WebSoftware(r)
        \/ TrimHardware(r)
        \/ TrimSoftware(r)
        \/ Reverse(r)
        \/ Concat(r)
        \/ Reencoder(r)
        \/ ReencoderProbe(r)
        \/ ReencoderHardware(r)
        \/ ReencoderFallback(r)
        \/ Finish(r)

Spec == Init /\ [][Next]_vars

(* ---------------------------------------------------------------------- *)
(* The helper methods called directly                                     *)
(* ---------------------------------------------------------------------- *)

\* The temporary files a method creates before its first probe.
MethodFiles(m) ==
    IF m = "boomerang"
    THEN <<TmpName(1, ".mp4"), TmpName(2, ".mp4"), TmpName(3, ".mp4")>>
    ELSE <<TmpName(1, ".mp4")>>

\* A call of method m with the trim window (start_time, end_time), after
\* its temporary files exist and before its next probe.  For the web
\* re-encode the codec, frame rate and resolution probes have returned
\* input_codec, 30.0 and resolution.
MethodCall(m, gpu_available, start_time, end_time, input_codec, resolution) ==
    LET files == MethodFiles(m)
        call == [Worker("idle", gpu_available, 1)
                   EXCEPT !.entry = IF m = "reencoder" THEN "reencoder" ELSE "method",
                          !.task = IF m = "reencoder" THEN "" ELSE m,
                          !.video = "/input/video.mp4",
                          !.start_time = start_time, !.end_time = end_time,
                          !.preset = "medium",
                          !.bitrate = IF m \in {"create_preview_video", "boomerang"}
                                      THEN "20M" ELSE "",
                          !.output_path = files[Len(files)],
                          !.created = Range(files)]
    IN  IF m = "boomerang"
        THEN [call EXCEPT !.pc = "boom_codec",
                          !.trimmed_path = files[1],
                          !.reversed_path = files[2]]
        ELSE IF m = "reencode_for_web"
        THEN [call EXCEPT !.pc = "web_bitrate",
                          !.input_codec = input_codec,
                          !.fps = <<30, 1>>,
                          !.resolution = resolution,
                          !.probes = <<[query |-> "codec_name", rc |-> 0],
                                       [query |-> "r_frame_rate", rc |-> 0],
                                       [query |-> "width,height", rc |-> 0]>>]
        ELSE IF m = "create_preview_video"
        THEN [call EXCEPT !.pc = "preview_codec"]
        ELSE [call EXCEPT !.pc = "re_probe"]

MethodInit ==
    \E m \in Methods, gpu_available \in BOOLEAN,
       start_time \in StartTimes, end_time \in EndTimes,
       input_codec \in {"h264", "hevc"}, resolution \in ResolutionInputs :
        /\ rq = [r \in Reqs |->
                   IF r = "w1"
                   THEN MethodCall(m, gpu_available, start_time, end_time,
                                   input_codec, resolution)
                   ELSE Worker("off", FALSE, 0)]
        /\ disk = [p \in Range(MethodFiles(m)) |-> <<>>]
        /\ nextTmp = Len(MethodFiles(m)) + 1

MethodNext ==
    \E r \in Reqs :
        \/ ProbeCodec(r)
        \/ ProbeBitrateFrom(r, BitrateInputs)
        \/ PreviewHardware(r)
        \/ PreviewSoftware(r)
        \/ WebHardware(r)
        \/ WebSoftware(r)
        \/ TrimHardware(r)
        \/ TrimSoftware(r)
        \/ Reverse(r)
        \/ Concat(r)
        \/ ReencoderProbe(r)
        \/ ReencoderHardware(r)
        \/ ReencoderFallback(r)

MethodSpec == MethodInit /\ [][MethodNext]_vars

(* ---------------------------------------------------------------------- *)
(* Two worker processes serving boomerang requests at the same time       *)
(* ---------------------------------------------------------------------- *)

\* Both workers have been started; each runs setup and serves one
\* boomerang request.  A step is one blocking call of one worker, so the
\* stages of the two requests interleave in every order.
BoomerangInit ==
    /\ rq = [r \in Reqs |-> Worker("boot", FALSE, 0)]
    /\ disk = [p \in {} |-> <<>>]
    /\ nextTmp = 1

BoomerangNext ==
    \E r \in Reqs :
        \/ Setup(r)
        \/ PredictTask(r, "boomerang")
        \/ ProbeCodec(r)
        \/ TrimHardware(r)
        \/ TrimSoftware(r)
        \/ Reverse(r)
        \/ Concat(r)

BoomerangSpec == BoomerangInit /\ [][BoomerangNext]_vars

(* ---------------------------------------------------------------------- *)
(* The probe queries of one web re-encode, for any text the tool prints   *)
(* ---------------------------------------------------------------------- *)

\* _reencode_for_web entered for the input video, before its first probe.
ProbeCall(gpu_available) ==
    [Worker("web_codec", gpu_available, 1)
       EXCEPT !.entry = "method", !.task = "reencode_for_web",
              !.video = "/input/video.mp4", !.preset = "medium",
              !.output_path = TmpName(1, ".mp4"),
              !.created = {TmpName(1, ".mp4")}]

ProbeInit ==
    \E gpu_available \in BOOLEAN :
        /\ rq = [r \in Reqs |->
                   IF r = "w1" THEN ProbeCall(gpu_available)
                   ELSE Worker("off", FALSE, 0)]
        /\ disk = [p \in {TmpName(1, ".mp4")} |-> <<>>]
        /\ nextTmp = 2

ProbeNext ==
    \E r \in Reqs :
        \/ ProbeCodecFrom(r, CodecInputs)
        \/ ProbeFpsFrom(r, FpsInputs)
        \/ ProbeResolutionFrom(r, ResolutionDocuments)
        \/ ProbeBitrateFrom(r, BitrateInputs)

ProbeSpec == ProbeInit /\ [][ProbeNext]_vars


(* ---------------------------------------------------------------------- *)
(* Properties                                                             *)
(* ---------------------------------------------------------------------- *)

\* The call sites that run a hardware plan first, and the call site of the
\* plan each falls back to.
HardwareSites ==
    {"_encode_preview_with_hardware", "_encode_web_with_hardware",
     "_encode_with_hardware", "cmd"}

FallbackSite(site) ==
    CASE site = "_encode_preview_with_hardware" -> "_encode_preview_with_software"
      [] site = "_encode_web_with_hardware" -> "_encode_web_with_software"
      [] site = "_encode_with_hardware" -> "_encode_with_software"
      [] site = "cmd" -> "fallback_cmd"
      [] OTHER -> ""

\* The engine runs of the call's single-stage encode (for a boomerang, of
\* its trim stage), and whether that encode has ended.
StageRuns(r) ==
    SelectSeq(rq[r].engine, LAMBDA e : e.site \notin {"reverse", "concat"})

StageEnded(r) == rq[r].pc \in {"done", "boom_reverse", "boom_concat"}

SingleStage(r) ==
    rq[r].entry = "reencoder"
    \/ rq[r].task \in {"create_preview_video", "reencode_for_web"}

BoomerangDone(r) == rq[r].task = "boomerang" /\ rq[r].pc = "done"

LastRun(r) == rq[r].engine[Len(rq[r].engine)]

\* C1: when a boomerang call returns or raises, whichever stage failed, the
\* trimmed file T and the reversed file R are not on disk, and the output
\* file O is on disk only if the call returned.
C1_BoomerangLeavesOnlyOutput ==
    \A r \in Reqs :
        BoomerangDone(r) =>
            /\ ~Exists(disk, rq[r].trimmed_path)
            /\ ~Exists(disk, rq[r].reversed_path)
            /\ Exists(disk, rq[r].output_path) => rq[r].outcome.kind = "returned"

\* C2: when the trim stage succeeded and the reverse run exited non-zero,
\* the boomerang call has raised and none of the files this call created
\* (T, R, O, the concat descriptor) is on disk.
C2_ReverseFailureLeavesNothing ==
    \A r \in Reqs :
        (BoomerangDone(r) /\ LastRun(r).site = "reverse" /\ LastRun(r).rc # 0) =>
            /\ rq[r].outcome.kind = "raised"
            /\ rq[r].concat_name = ""
            /\ rq[r].created =
                 {rq[r].trimmed_path, rq[r].reversed_path, rq[r].output_path}
            /\ rq[r].created \cap DOMAIN disk = {}

C2_Witness ==
    \E r \in Reqs :
        /\ BoomerangDone(r)
        /\ Len(rq[r].engine) = 3
        /\ rq[r].engine[2].rc = 0
        /\ LastRun(r).site = "reverse" /\ LastRun(r).rc # 0

C5_FinalErrorCarriesDiagnostics ==
    \A r \in Reqs :
        (rq[r].pc = "done" /\ rq[r].outcome.kind = "raised"
         /\ rq[r].engine # <<>>) =>
            /\ LastRun(r).rc # 0
            /\ LastRun(r).site \notin HardwareSites
            /\ LastRun(r).stderr # None
            /\ rq[r].outcome.text = Some(DecodeReplace(LastRun(r).stderr[1]))

\* C6: with gpu_available false no hardware plan is run by a predict call,
\* and its single-stage encode runs the engine exactly once.
C6_NoHardwareWithoutGpu ==
    \A r \in Reqs :
        (rq[r].entry = "predict" /\ ~rq[r].gpu_available) =>
            /\ \A i \in 1..Len(rq[r].engine) :
                 /\ ~UsesHardware(rq[r].engine[i].cmd)
                 /\ rq[r].engine[i].site \notin HardwareSites
            /\ (StageEnded(r) /\ Handler(rq[r].task) # "raise") =>
                 Len(StageRuns(r)) = 1

C6_Witness ==
    \E r \in Reqs :
        /\ ~rq[r].gpu_available
        /\ BoomerangDone(r)
        /\ rq[r].outcome.kind = "returned"
        /\ Len(rq[r].engine) = 3

\* C7: when the hardware plan exits zero the single-stage encode has
\* returned the output path at once: the hardware run is its only engine
\* run and the output file is the one that run wrote.
C7_HardwareSuccessReturnsAtOnce ==
    \A r \in Reqs :
        LET runs == StageRuns(r)
        IN  (Len(runs) >= 1 /\ runs[1].site \in HardwareSites /\ runs[1].rc = 0) =>
                /\ Len(runs) = 1
                /\ StageEnded(r)
                /\ SingleStage(r) =>
                     /\ rq[r].pc = "done"
                     /\ rq[r].outcome = Returned(rq[r].output_path)
                     /\ disk[rq[r].output_path] = <<runs[1].site>>

C7_Witness ==
    \E r \in Reqs :
        /\ rq[r].task = "create_preview_video" /\ rq[r].pc = "done"
        /\ rq[r].gpu_available
        /\ Len(rq[r].engine) = 1 /\ rq[r].engine[1].rc = 0
        /\ rq[r].engine[1].site = "_encode_preview_with_hardware"

\* C8: a task name outside the three known ones makes predict raise the
\* unknown-task error with no probe run, no engine run and no temporary
\* file created.
C8_UnknownTaskHasNoSideEffects ==
    \A r \in Reqs :
        (rq[r].entry = "predict" /\ rq[r].pc # "idle"
         /\ rq[r].task \notin {"create_preview_video", "boomerang", "reencode_for_web"}) =>
            /\ rq[r].pc = "done"
            /\ rq[r].outcome = Raised("ValueError", "Unknown task: ", Some(rq[r].task))
            /\ rq[r].probes = <<>>
            /\ rq[r].engine = <<>>
            /\ rq[r].created = {}

C8_Witness ==
    \E r \in Reqs :
        /\ rq[r].task = "unknown_task" /\ rq[r].pc = "done"
        /\ rq[r].outcome.etype = "ValueError"

\* C9: a failing probe never fails the caller: the field takes its default
\* (codec "unknown", 30.0 fps, 1920x1080, bitrate absent), no exception
\* reaches the caller, and the web re-encode still runs all four queries.
ProbeFailed(r, query) ==
    \E i \in 1..Len(rq[r].probes) :
        rq[r].probes[i].query = query /\ rq[r].probes[i].rc # 0

C9_ProbeNeverFailsCaller ==
    \A r \in Reqs :
        /\ ProbeFailed(r, "codec_name") =>
             /\ rq[r].input_codec = "unknown"
             /\ ~(rq[r].outcome.kind = "raised" /\ rq[r].engine = <<>>)
        /\ ProbeFailed(r, "r_frame_rate") => rq[r].fps = <<30, 1>>
        /\ ProbeFailed(r, "width,height") => rq[r].resolution = <<1920, 1080>>
        /\ ProbeFailed(r, "bit_rate") => rq[r].input_bitrate = None
        /\ rq[r].pc \in {"web_hw", "web_sw"} =>
             [i \in 1..4 |-> rq[r].probes[i].query] =
                <<"codec_name", "r_frame_rate", "width,height", "bit_rate">>

\* round(num / den), Python's round of a non-negative fraction (ties to even).
RoundOf(num, den) ==
    LET q == num \div den
        twice == 2 * (num % den)
    IN  IF twice < den THEN q
        ELSE IF twice > den THEN q + 1
        ELSE IF q % 2 = 0 THEN q ELSE q + 1

\* C10: the keyframe interval of a web re-encode, as derived and as passed
\* to the engine after "-g", is round(fps * 2) of the probed frame rate.
C10_KeyframeIntervalIsRounded ==
    \A r \in Reqs :
        (rq[r].task = "reencode_for_web" /\ rq[r].pc \in {"web_hw", "web_sw", "done"}) =>
            /\ rq[r].keyframe_interval = RoundOf(2 * rq[r].fps[1], rq[r].fps[2])
            /\ \A i \in 1..Len(rq[r].engine) :
                 \E j \in 1..(Len(rq[r].engine[i].cmd) - 1) :
                    /\ rq[r].engine[i].cmd[j] = "-g"
                    /\ rq[r].engine[i].cmd[j + 1] =
                         Str(RoundOf(2 * rq[r].fps[1], rq[r].fps[2]))

\* A web re-encode whose parameters have been derived (lines 502-542 done).
WebDerived(r) ==
    rq[r].task = "reencode_for_web" /\ rq[r].pc \in {"web_hw", "web_sw", "done"}

\* C11: for an input taller than 1440 the derived output height is 1440, the
\* derived output width is even, and the width differs from the exact value
\* width * 1440 / height by at most one pixel.
C11_CappedWidthWithinOnePixel ==
    \A r \in Reqs :
        (WebDerived(r) /\ rq[r].resolution[2] > 1440) =>
            LET width == rq[r].resolution[1]
                height == rq[r].resolution[2]
                new_width == rq[r].new_resolution[1]
            IN  /\ rq[r].new_resolution[2] = 1440
                /\ rq[r].scale_filter = rq[r].new_resolution
                /\ new_width % 2 = 0
                /\ new_width * height - width * 1440 <= height
                /\ width * 1440 - new_width * height <= height

\* C12: for an input of height at most 1440 the derived output resolution is
\* the input resolution, no scale filter is derived, and neither the
\* hardware nor the software plan that is run carries a -vf argument.
C12_NoScalingAtOrBelowCap ==
    \A r \in Reqs :
        (WebDerived(r) /\ rq[r].resolution[2] <= 1440) =>
            /\ rq[r].new_resolution = rq[r].resolution
            /\ rq[r].scale_filter = None
            /\ \A i \in 1..Len(rq[r].engine) :
                 /\ "-vf" \notin Range(rq[r].engine[i].cmd)
                 /\ Range(rq[r].engine[i].cmd) \cap ScaleCudaTexts = {}

C12_Witness ==
    \E r \in Reqs :
        /\ WebDerived(r) /\ rq[r].pc = "done"
        /\ rq[r].resolution = <<2560, 1440>>
        /\ Len(rq[r].engine) = 2
        /\ rq[r].engine[1].site = "_encode_web_with_hardware"
        /\ rq[r].engine[2].site = "_encode_web_with_software"

\* The ladder as the claims state it: <<target, max>> in Mbps by height.
StepLadder(h) ==
    IF h >= 1440 THEN <<8, 12>>
    ELSE IF h >= 1080 THEN <<5, 8>>
    ELSE IF h >= 720 THEN <<3, 5>>
    ELSE <<2, 3>>

\* `flag` is followed by `value` in the argument list.
HasPair(cmd, flag, value) ==
    \E j \in 1..(Len(cmd) - 1) : cmd[j] = flag /\ cmd[j + 1] = value

\* The probed bitrate b of the call is known (present and positive), and
\* 0.8 * b in units of 1e-7 Mbps.
BitrateKnown(r) == rq[r].input_bitrate # None /\ rq[r].input_bitrate[1] > 0

EightTenths(r) == 8 * rq[r].input_bitrate[1]

C14_LadderByOutputHeight ==
    \A r \in Reqs :
        (WebDerived(r)
         /\ ~(BitrateKnown(r)
              /\ EightTenths(r) < StepLadder(rq[r].new_resolution[2])[1] * 10000000)) =>
            /\ <<rq[r].target_bitrate, rq[r].max_bitrate>> =
                 <<FormatM(StepLadder(rq[r].new_resolution[2])[1]),
                   FormatM(StepLadder(rq[r].new_resolution[2])[2])>>
            /\ rq[r].resolution[2] > 1440 =>
                 <<rq[r].target_bitrate, rq[r].max_bitrate>> = <<"8M", "12M">>

C14_Witness ==
    \E r \in Reqs :
        /\ WebDerived(r) /\ rq[r].pc = "done"
        /\ rq[r].resolution = <<2160, 3840>>
        /\ rq[r].input_bitrate = None
        /\ rq[r].max_bitrate = "12M"
        /\ rq[r].engine # <<>>

\* C15: once the concat run has ended the boomerang call, the trimmed file,
\* the reversed file and the concat descriptor are off the disk, on success
\* and on failure alike; after a failed concat run the call has raised and
\* the partially written output file is gone too.
C15_ConcatLeavesNoTransientFile ==
    \A r \in Reqs :
        (BoomerangDone(r) /\ LastRun(r).site = "concat") =>
            /\ ~Exists(disk, rq[r].trimmed_path)
            /\ ~Exists(disk, rq[r].reversed_path)
            /\ ~Exists(disk, rq[r].concat_name)
            /\ LastRun(r).rc # 0 =>
                 /\ rq[r].outcome.kind = "raised"
                 /\ ~Exists(disk, rq[r].output_path)

\* C16: in a finished predict call every run of a hardware plan that exited
\* non-zero (the trim, preview and web encodes, and the reverse stage of the
\* boomerang when the GPU is available) is followed by one run of a
\* software plan for the same output file, so that an error reaches the
\* caller only after a software plan has failed.
C16_HardwareFailureFallsBack ==
    \A r \in Reqs :
        (rq[r].entry = "predict" /\ rq[r].pc = "done") =>
            \A i \in 1..Len(rq[r].engine) :
                LET run == rq[r].engine[i]
                IN  (UsesHardware(run.cmd) /\ run.rc # 0) =>
                        /\ i < Len(rq[r].engine)
                        /\ ~UsesHardware(rq[r].engine[i + 1].cmd)
                        /\ HasPair(rq[r].engine[i + 1].cmd, "-c:v", "libx264")
                        /\ rq[r].engine[i + 1].cmd[Len(rq[r].engine[i + 1].cmd)]
                             = run.cmd[Len(run.cmd)]

\* C17: when a single-stage encode (preview, web re-encode, reencoder) has
\* failed finally - its last engine run exited non-zero and the call has
\* raised - no temporary path the call created is left on disk.
C17_FailedEncodeLeavesNoOutput ==
    \A r \in Reqs :
        (SingleStage(r) /\ rq[r].pc = "done" /\ rq[r].outcome.kind = "raised"
         /\ rq[r].engine # <<>> /\ LastRun(r).rc # 0) =>
            /\ ~Exists(disk, rq[r].output_path)
            /\ rq[r].created \cap DOMAIN disk = {}

\* The boomerang stage an engine run belongs to.
StageOfSite(site) ==
    IF site = "reverse" THEN "reverse"
    ELSE IF site = "concat" THEN "concat"
    ELSE "trim"

\* The stage an error identifies to the caller, read off the part of the
\* message the program writes: "Software encoding failed: " comes only from
\* the software encode, which in a boomerang only the trim stage calls;
\* "Boomerang creation failed: " is the one message of the handler that
\* serves the reverse and the concat run alike, and names neither.
StageOfError(o) ==
    IF o.prefix = "Software encoding failed: " THEN "trim"
    ELSE IF o.prefix = "Boomerang creation failed: " THEN "pipeline"
    ELSE "none"

\* C18: when a boomerang call has raised because a stage's engine run
\* failed, the error identifies that stage: a failed reverse run yields an
\* error identifying "reverse", a failed trim "trim", a failed concat
\* "concat".
C18_ErrorIdentifiesStage ==
    \A r \in Reqs :
        (BoomerangDone(r) /\ rq[r].outcome.kind = "raised" /\ LastRun(r).rc # 0) =>
            StageOfError(rq[r].outcome) = StageOfSite(LastRun(r).site)

\* The call sites that run a plan as the software path: the software
\* encodes of the Predictor and the fallback plans of reencoder.
SoftwarePathSites ==
    {"_encode_with_software", "_encode_preview_with_software",
     "_encode_web_with_software", "fallback_cmd", "fallback_cmd_2"}

\* C19: every plan run as the software path (hardware unavailable, or the
\* fallback after a failed hardware plan) selects libx264 and carries no
\* h264_nvenc, h264_cuvid, hwaccel or scale_cuda argument; and the reverse
\* plan of a boomerang selects the hardware encoder exactly when the
\* hardware path was requested for the trimmed file (gpu_available).
C19_SoftwarePathSelectsSoftware ==
    \A r \in Reqs :
        \A i \in 1..Len(rq[r].engine) :
            LET run == rq[r].engine[i]
            IN  /\ (run.site \in SoftwarePathSites
                    \/ (run.site = "reverse" /\ ~rq[r].gpu_available)) =>
                       /\ HasPair(run.cmd, "-c:v", "libx264")
                       /\ ~UsesHardware(run.cmd)
                /\ run.site = "reverse" =>
                       (HasPair(run.cmd, "-c:v", "h264_nvenc") <=> rq[r].gpu_available)

\* The position of the first `tok` in an argument list that contains it.
IndexOf(cmd, tok) ==
    CHOOSE j \in 1..Len(cmd) : cmd[j] = tok /\ \A k \in 1..(j - 1) : cmd[k] # tok

\* C20: in every plan built from a trim window (generic, preview, web and
\* reencoder plans; hardware and software) "-ss <start>" is present iff
\* start # 0 and "-to <end>" is present iff end # -1, each before the input
\* argument "-i"; with the default window (0, -1) neither is emitted.
C20_TrimArgumentsIffNonDefault ==
    \A r \in Reqs :
        \A i \in 1..Len(rq[r].engine) :
            LET cmd == rq[r].engine[i].cmd
            IN  rq[r].engine[i].site \notin {"reverse", "concat"} =>
                    /\ "-i" \in Range(cmd)
                    /\ ("-ss" \in Range(cmd)) <=> (rq[r].start_time # 0)
                    /\ ("-to" \in Range(cmd)) <=> (rq[r].end_time # -1)
                    /\ rq[r].start_time # 0 =>
                         /\ cmd[IndexOf(cmd, "-ss") + 1] = Str(rq[r].start_time)
                         /\ IndexOf(cmd, "-ss") < IndexOf(cmd, "-i")
                    /\ rq[r].end_time # -1 =>
                         /\ cmd[IndexOf(cmd, "-to") + 1] = Str(rq[r].end_time)
                         /\ IndexOf(cmd, "-to") < IndexOf(cmd, "-i")

C20_Witness ==
    \E r \in Reqs :
        /\ rq[r].task = "create_preview_video" /\ rq[r].pc = "done"
        /\ rq[r].start_time = 1 /\ rq[r].end_time = -1
        /\ Len(rq[r].engine) = 2
        /\ rq[r].engine[1].site = "_encode_preview_with_hardware"
        /\ HasPair(rq[r].engine[1].cmd, "-ss", "1")
        /\ HasPair(rq[r].engine[2].cmd, "-ss", "1")
        /\ "-to" \notin Range(rq[r].engine[2].cmd)

\* The codec the call probed for its input: input_codec of the Predictor,
\* ffprobe_output of reencoder.
ProbedCodec(r) ==
    IF rq[r].entry = "reencoder" THEN rq[r].ffprobe_output ELSE rq[r].input_codec

\* The scale filter arguments of a plan: the values that follow "-vf",
\* other than the reverse filter.
ScaleArgs(cmd) ==
    {cmd[j + 1] : j \in {k \in 1..(Len(cmd) - 1) : cmd[k] = "-vf"}} \ {"reverse"}

\* C21: every plan that is run on the probed input and selects the hardware
\* encoder requests hardware decode (h264_cuvid) and uses only the
\* scale_cuda filter when the probed codec is "h264"; for any other codec
\* it carries no h264_cuvid or hwaccel argument and no scale_cuda filter.
C21_HardwareDecodeIffH264 ==
    \A r \in Reqs :
        \A i \in 1..Len(rq[r].engine) :
            LET cmd == rq[r].engine[i].cmd
            IN  (rq[r].engine[i].site \notin {"reverse", "concat"}
                 /\ HasPair(cmd, "-c:v", "h264_nvenc")) =>
                    IF ProbedCodec(r) = "h264"
                    THEN /\ HasPair(cmd, "-c:v", "h264_cuvid")
                         /\ IndexOf(cmd, "h264_cuvid") < IndexOf(cmd, "-i")
                         /\ ScaleArgs(cmd) \subseteq ScaleCudaTexts
                    ELSE /\ "h264_cuvid" \notin Range(cmd)
                         /\ "-hwaccel" \notin Range(cmd)
                         /\ ScaleArgs(cmd) \cap ScaleCudaTexts = {}

\* What a boomerang request that ran its engine calls with these results
\* returns or raises when it runs alone, and the files of its own it leaves
\* behind (see C1, C2 and C15 for the three failure rows).
SoloOutcome(call) ==
    LET last == call.engine[Len(call.engine)]
    IN  IF last.rc = 0 THEN Returned(call.output_path)
        ELSE Raised("RuntimeError",
                    IF last.site = "_encode_with_software"
                    THEN "Software encoding failed: "
                    ELSE "Boomerang creation failed: ",
                    Some(DecodeReplace(last.stderr[1])))

SoloFiles(call) ==
    LET last == call.engine[Len(call.engine)]
    IN  IF last.rc = 0
        THEN [p \in {call.output_path} |-> <<"concat">>]
        ELSE IF last.site = "_encode_with_software"
        THEN [p \in {call.trimmed_path, call.reversed_path, call.output_path} |->
                IF p = call.trimmed_path THEN <<"partial">> ELSE <<>>]
        ELSE IF last.site = "reverse"
        THEN [p \in {} |-> <<>>]
        ELSE [p \in {call.concat_name} |->
                <<"file '" \o call.trimmed_path \o "'",
                  "file '" \o call.reversed_path \o "'">>]

\* The files of the request's own that are on disk.
OwnFiles(r) == [p \in rq[r].created \cap DOMAIN disk |-> disk[p]]

\* In every state: the two requests hold disjoint sets of temporary paths,
\* a request has unlinked only paths it created, and a finished request
\* has the outcome and the surviving files of the same request run alone.
NoInterference ==
    /\ \A r, q \in Reqs : r # q => rq[r].created \cap rq[q].created = {}
    /\ \A r \in Reqs :
         /\ Range(rq[r].unlinked) \subseteq rq[r].created
         /\ BoomerangDone(r) =>
              /\ rq[r].outcome = SoloOutcome(rq[r])
              /\ OwnFiles(r) = SoloFiles(rq[r])

\* In every step: each file created, rewritten or removed belongs to the
\* one request that took the step.
TouchesOwnFilesOnly ==
    \A p \in DOMAIN disk \cup DOMAIN disk' :
        (p \notin DOMAIN disk \/ p \notin DOMAIN disk' \/ disk'[p] # disk[p]) =>
            \E r \in Reqs :
                /\ p \in rq'[r].created
                /\ \A q \in Reqs \ {r} : rq'[q] = rq[q]

\* C22: two boomerang requests served at the same time by two workers,
\* with the distinct temporary paths the provider hands out, do not
\* interfere under any interleaving of their stages: a request creates,
\* writes and deletes only paths it created, and its outcome and surviving
\* files are those of running it alone.
C22_ConcurrentBoomerangsDoNotInterfere ==
    []NoInterference /\ [][TouchesOwnFilesOnly]_vars

C22_Witness ==
    /\ BoomerangDone("w1") /\ BoomerangDone("w2")
    /\ rq["w1"].trimmed_path = "/tmp/tmp1.mp4"
    /\ rq["w2"].trimmed_path = "/tmp/tmp4.mp4"
    /\ rq["w2"].concat_name = "/tmp/tmp7.txt"
    /\ rq["w1"].concat_name = "/tmp/tmp8.txt"
    /\ rq["w1"].outcome.kind = "raised" /\ rq["w1"].unlinked # <<>>
    /\ rq["w2"].outcome.kind = "returned"
    /\ DOMAIN disk = {"/tmp/tmp8.txt", rq["w2"].output_path}

\* How many times the call has unlinked `path`.
TimesUnlinked(r, path) ==
    Cardinality({i \in 1..Len(rq[r].unlinked) : rq[r].unlinked[i] = path})

\* C23: when a boomerang call has ended, no path was unlinked more than
\* once, no unlink was attempted on a missing path (which would raise
\* FileNotFoundError), T and R were each unlinked exactly once, and a
\* returned O was never unlinked and is on disk.
C23_EachIntermediateDeletedOnce ==
    \A r \in Reqs :
        BoomerangDone(r) =>
            /\ \A p \in rq[r].created : TimesUnlinked(r, p) <= 1
            /\ rq[r].outcome.etype # "FileNotFoundError"
            /\ TimesUnlinked(r, rq[r].trimmed_path) = 1
            /\ TimesUnlinked(r, rq[r].reversed_path) = 1
            /\ rq[r].outcome.kind = "returned" =>
                 /\ TimesUnlinked(r, rq[r].output_path) = 0
                 /\ Exists(disk, rq[r].output_path)

\* C24: the boomerang stages run in the order trim, reverse, concat, each
\* plan at most once: the reverse run directly follows a trim run that
\* exited zero, the concat run directly follows the reverse run that exited
\* zero, the descriptor exists only after a successful reverse, and after a
\* final trim failure the call has ended with no reverse run, no concat
\* run and no descriptor.
C24_StagesRunInOrder ==
    \A r \in Reqs :
        rq[r].task = "boomerang" =>
            LET e == rq[r].engine
            IN  /\ \A i, j \in 1..Len(e) : i < j => e[i].site # e[j].site
                /\ \A i \in 1..Len(e) :
                     /\ e[i].site = "_encode_with_hardware" => i = 1
                     /\ e[i].site = "_encode_with_software" =>
                          (i = 1 \/ (i = 2 /\ e[1].site = "_encode_with_hardware"
                                     /\ e[1].rc # 0))
                     /\ e[i].site = "reverse" =>
                          /\ i > 1
                          /\ StageOfSite(e[i - 1].site) = "trim"
                          /\ e[i - 1].rc = 0
                     /\ e[i].site = "concat" =>
                          /\ i > 1
                          /\ e[i - 1].site = "reverse"
                          /\ e[i - 1].rc = 0
                /\ rq[r].concat_name # "" =>
                     \E i \in 1..Len(e) : e[i].site = "reverse" /\ e[i].rc = 0
                /\ (Len(e) >= 1 /\ e[Len(e)].site = "_encode_with_software"
                    /\ e[Len(e)].rc # 0) =>
                     /\ rq[r].pc = "done"
                     /\ rq[r].outcome.kind = "raised"
                     /\ rq[r].concat_name = ""
                     /\ rq[r].created =
                          {rq[r].trimmed_path, rq[r].reversed_path, rq[r].output_path}

C24_Witness ==
    \E r \in Reqs :
        /\ BoomerangDone(r)
        /\ [i \in 1..Len(rq[r].engine) |-> rq[r].engine[i].site] =
             <<"_encode_with_hardware", "_encode_with_software", "reverse", "concat">>
        /\ rq[r].engine[1].rc # 0
        /\ rq[r].outcome.kind = "returned"

\* The positive-rate test on a frame rate kept as the fraction <<num, den>>.
PositiveRate(fps) == fps[2] > 0 /\ fps[1] > 0

\* C25: whatever the probing tool printed, the properties a web re-encode
\* has read satisfy the data-model constraints: the codec is a non-empty
\* string, the frame rate is above zero, width and height are above zero,
\* and the bit rate is absent or above zero.
C25_ProbedPropertiesWellFormed ==
    \A r \in Reqs :
        rq[r].task = "reencode_for_web" =>
            /\ Len(rq[r].probes) >= 1 => rq[r].input_codec # ""
            /\ Len(rq[r].probes) >= 2 => PositiveRate(rq[r].fps)
            /\ Len(rq[r].probes) >= 3 =>
                 rq[r].resolution[1] > 0 /\ rq[r].resolution[2] > 0
            /\ Len(rq[r].probes) >= 4 =>
                 (rq[r].input_bitrate = None \/ rq[r].input_bitrate[1] > 0)

\* The value following `flag` in an argument list, None when it is absent.
ValueOf(cmd, flag) ==
    IF flag \in Range(cmd) THEN Some(cmd[IndexOf(cmd, flag) + 1]) ELSE None

\* The "-vf" argument as either filter variant for the derived dimensions.
ScaleValues(scale_filter) ==
    IF scale_filter = None THEN {None}
    ELSE {Some(ScaleText("scale", scale_filter)),
          Some(ScaleText("scale_cuda", scale_filter))}

\* C26: when one web re-encode ran both its hardware plan and its software
\* plan, the two argument lists name the same input, output, trim window,
\* scale dimensions, keyframe interval, target bit rate, maximum bit rate
\* and buffer size, the target and maximum being the derived ones and the
\* buffer size twice the maximum.
C26_WebPlansAnalogous ==
    \A r \in Reqs :
        \A i, j \in 1..Len(rq[r].engine) :
            (/\ rq[r].engine[i].site = "_encode_web_with_hardware"
             /\ rq[r].engine[j].site = "_encode_web_with_software") =>
                LET hw == rq[r].engine[i].cmd
                    sw == rq[r].engine[j].cmd
                IN  /\ \A flag \in {"-i", "-ss", "-to", "-g", "-b:v",
                                    "-maxrate", "-bufsize"} :
                          ValueOf(hw, flag) = ValueOf(sw, flag)
                    /\ hw[Len(hw)] = rq[r].output_path
                    /\ sw[Len(sw)] = rq[r].output_path
                    /\ ValueOf(hw, "-i") = Some(rq[r].video)
                    /\ ValueOf(hw, "-vf") \in ScaleValues(rq[r].scale_filter)
                    /\ ValueOf(sw, "-vf") \in ScaleValues(rq[r].scale_filter)
                    /\ ValueOf(hw, "-b:v") = Some(rq[r].target_bitrate)
                    /\ ValueOf(hw, "-maxrate") = Some(rq[r].max_bitrate)
                    /\ ValueOf(hw, "-bufsize") =
                         Some(FormatM(2 * MbpsOf(rq[r].max_bitrate)))

\* C27: for every input resolution and every probed bit rate, known or
\* absent, the derived target is at most the ladder's target for the output
\* height, the derived maximum is at most the ladder's maximum, the derived
\* target is at least 2M, and the derived target is at most the derived
\* maximum; every plan run carries that maximum.
C27_DerivedBitrateWithinLadder ==
    \A r \in Reqs :
        WebDerived(r) =>
            LET ladder == StepLadder(rq[r].new_resolution[2])
                target == MbpsOf(rq[r].target_bitrate)
                maxrate == MbpsOf(rq[r].max_bitrate)
            IN  /\ rq[r].target_bitrate \in {FormatM(n) : n \in 0..99}
                /\ rq[r].max_bitrate \in {FormatM(n) : n \in 0..99}
                /\ target <= ladder[1]
                /\ maxrate <= ladder[2]
                /\ target >= 2
                /\ target <= maxrate

\* A 2160p input probed at 9 Mbps: the target shrinks below the ladder.
C27_Witness ==
    \E r \in Reqs :
        /\ WebDerived(r) /\ rq[r].pc = "done"
        /\ rq[r].resolution = <<3840, 2160>>
        /\ rq[r].input_bitrate = Some(9000000)
        /\ rq[r].target_bitrate = "7M" /\ rq[r].max_bitrate = "10M"
        /\ \E i \in 1..Len(rq[r].engine) :
             HasPair(rq[r].engine[i].cmd, "-maxrate", "10M")

\* The arguments that follow an "-i" in an argument list.
InputsOf(cmd) == {cmd[j + 1] : j \in {k \in 1..(Len(cmd) - 1) : cmd[k] = "-i"}}

\* C28: the descriptor a boomerang writes has exactly two entries, the
\* trimmed file T first and the reversed file R second; when the concat run
\* is about to start, T holds the output of this call's successful trim and
\* R the output of this call's successful reverse of T; and the concat
\* invocation reads the descriptor as its only input in concat format,
\* copies the streams (names no video encoder or filter) and writes the
\* call's output file.
C28_DescriptorListsTrimmedThenReversed ==
    \A r \in Reqs :
        rq[r].task = "boomerang" =>
            LET e == rq[r].engine
                T == rq[r].trimmed_path
                R == rq[r].reversed_path
            IN  /\ (rq[r].concat_name # "" /\ rq[r].concat_name \in DOMAIN disk) =>
                     /\ Len(disk[rq[r].concat_name]) = 2
                     /\ disk[rq[r].concat_name][1] = "file '" \o T \o "'"
                     /\ disk[rq[r].concat_name][2] = "file '" \o R \o "'"
                     /\ T # R
                /\ rq[r].pc = "boom_concat" =>
                     /\ rq[r].concat_name \in DOMAIN disk
                     /\ {T, R, rq[r].concat_name} \subseteq rq[r].created
                     /\ T \in DOMAIN disk /\ R \in DOMAIN disk
                     /\ disk[T] \in {<<"_encode_with_hardware">>,
                                     <<"_encode_with_software">>}
                     /\ disk[R] = <<"reverse">>
                     /\ \E i \in 1..Len(e) :
                          /\ StageOfSite(e[i].site) = "trim" /\ e[i].rc = 0
                          /\ e[i].cmd[Len(e[i].cmd)] = T
                     /\ e[Len(e)].site = "reverse" /\ e[Len(e)].rc = 0
                     /\ InputsOf(e[Len(e)].cmd) = {T}
                     /\ e[Len(e)].cmd[Len(e[Len(e)].cmd)] = R
                /\ \A i \in 1..Len(e) :
                     e[i].site = "concat" =>
                         /\ HasPair(e[i].cmd, "-f", "concat")
                         /\ HasPair(e[i].cmd, "-c", "copy")
                         /\ InputsOf(e[i].cmd) = {rq[r].concat_name}
                         /\ Range(e[i].cmd) \cap {"-c:v", "-vf", "-b:v"} = {}
                         /\ e[i].cmd[Len(e[i].cmd)] = rq[r].output_path

\* A boomerang whose concat run has been made, with its descriptor still
\* readable (the run exited non-zero).
C28_Witness ==
    \E r \in Reqs :
        /\ BoomerangDone(r)
        /\ Len(rq[r].engine) >= 3
        /\ rq[r].engine[Len(rq[r].engine)].site = "concat"
        /\ rq[r].concat_name \in DOMAIN disk
        /\ Len(disk[rq[r].concat_name]) = 2

====
